---- MODULE Spec2Model ----
(***************************************************************************)
(* Model of ch12/train_model.py: the command-line training script of the  *)
(* sequence-to-sequence dialogue model.  The script is one sequential      *)
(* process; pc is its position.  Strings are sequences of one-character    *)
(* strings, so that endswith and os.path.join are computed, not assumed.   *)
(* A phrase is its number of tokens; a phrase pair is <<d, i>>: phrases i  *)
(* and i+1 of dialogue d.  BLEU scores are integers in units of            *)
(* 1/BLEU_SCALE; a mean is the exact fraction [num, den] (the quotient of  *)
(* two small integers, which float division orders as the fractions are).  *)
(* args.cuda only moves tensors between devices and is not modelled.       *)
(***************************************************************************)
EXTENDS Integers, Sequences, FiniteSets

VARIABLES
    pc,           \* position of the script
    args,         \* parsed command line: cornell (optional), data, name
    corpus,       \* environment: the dialogues the selected source holds
    dirs,         \* directories created by os.makedirs
    reads,        \* sources read by load_data
    log_errors,   \* number of log.error calls
    exit_status,  \* None while running, then Some(exit status of the process)
    phrase_pairs, \* result of load_data
    train_data,   \* encoded training samples, shuffled in place
    emb_saved,    \* number of data.save_embeddings calls
    writer,       \* "none", "open", "closed"
    bleu_series,  \* scalars written under tag "bleu", one per epoch
    loss_series,  \* scalars written under tag "loss", one per epoch
    params,       \* version of the network parameters (optimizer steps applied)
    grad,         \* batches whose loss has been accumulated into .grad
    grad_clipped, \* TRUE when .grad has been rescaled to norm <= GRAD_CLIP
    best_bleu,    \* optional fraction
    epoch,        \* index of the current epoch (MAX_EPOCHES once range is exhausted)
    shuffles,     \* number of random.shuffle calls
    losses,       \* per-batch losses of the current epoch
    bleu_sum,
    bleu_count,
    bleu,         \* mean BLEU of the current epoch
    ofs,          \* number of batches already yielded by iterate_batches
    nbatches,     \* serial number of the current batch in the run
    batch,        \* current batch
    idx,          \* position in the current batch (1-based)
    loss_v,       \* loss of the current batch
    trace,        \* steps performed on the current batch, in order
    scored,       \* <<pair, bleu>> of every pair decoded in the current epoch
    yielded,      \* batches yielded by iterate_batches in the current epoch
    files,        \* checkpoint files: [name, content]
    saved_at      \* epochs at whose end torch.save was called

vars == <<pc, args, corpus, dirs, reads, log_errors, exit_status, phrase_pairs,
          train_data, emb_saved, writer, bleu_series, loss_series, params, grad,
          grad_clipped, best_bleu, epoch, shuffles, losses, bleu_sum, bleu_count,
          bleu, ofs, nbatches, batch, idx, loss_v, trace, scored, yielded, files,
          saved_at>>

----------------------------------------------------------------------------
(* Program constants *)

DEFAULT_FILE == <<"d","a","t","a","/","O","p","e","n","S","u","b","t","i","t","l","e","s","/","e","n","/","C","r","i","m","e","/","1","9","9","4","/","6","0","_","1","0","1","0","2","0","_","1","3","8","0","5","7","_","p","u","l","p","_","f","i","c","t","i","o","n",".","x","m","l",".","g","z">>
DATA_DIR == <<"d","a","t","a","/","O","p","e","n","S","u","b","t","i","t","l","e","s","/","e","n","/">>
SAVES_DIR == <<"s","a","v","e","s">>
XML_GZ == <<".","x","m","l",".","g","z">>

MAX_TOKENS == 10

\* BATCH_SIZE is 32 and MAX_EPOCHES is 1000 in the script; the model runs the
\* same loops with scaled-down values.
BATCH_SIZE == 2
MAX_EPOCHES == 3

----------------------------------------------------------------------------
(* Bounds and input domains *)

\* One BLEU unit is 1/BLEU_SCALE, a power of two, so that every score and every
\* sum of scores is an exact double.
BLEU_SCALE == 2^11
BleuValues == {1, 2, 3}
LossValues == {1}

None == [given |-> FALSE, val |-> <<>>]
Some(v) == [given |-> TRUE, val |-> v]

RunName == <<"r">>
Genre == <<"c","o","m","e","d","y">>
Category == <<"C","r","i","m","e">>
AbsDir == <<"/","s","r","v","/","s","u","b","s">>
OtherFile == <<"a",".","x","m","l",".","g","z">>

DefaultArgs == [cornell |-> None, data |-> DEFAULT_FILE, name |-> RunName]
AllArgs == [cornell : {None, Some(<<>>), Some(Genre)},
            data : {DEFAULT_FILE, <<>>, Category, AbsDir, OtherFile},
            name : {RunName}]

\* Dialogue sets: a dialogue is a sequence of phrases, a phrase its token count.
NoDialogues == <<>>
OnePair == << <<2, 2>> >>
SmallCorpora == {NoDialogues, OnePair}
AllCorpora == {NoDialogues,
               << <<11, 11>> >>,
               << <<2>> >>,
               OnePair,
               << <<2, 2, 2>> >>,
               << <<2, 2>>, <<2, 11, 2, 2, 2>> >>}

----------------------------------------------------------------------------
(* Pure helpers *)

EndsWith(s, suffix) ==
    /\ Len(s) >= Len(suffix)
    /\ SubSeq(s, Len(s) - Len(suffix) + 1, Len(s)) = suffix

\* os.path.join(a, b) on POSIX
PathJoin(a, b) ==
    IF Len(b) > 0 /\ b[1] = "/" THEN b
    ELSE IF Len(a) = 0 \/ a[Len(a)] = "/" THEN a \o b
    ELSE a \o <<"/">> \o b

\* "cornell is not None" tested by truthiness instead
SelectSourceTruthy(a) ==
    IF a.cornell.given /\ a.cornell.val # <<>>
    THEN [kind |-> "cornell", arg |-> a.cornell.val]
    ELSE IF EndsWith(a.data, XML_GZ) THEN [kind |-> "file", arg |-> a.data]
    ELSE IF Len(a.data) = 0 THEN [kind |-> "dir", arg |-> DATA_DIR]
    ELSE [kind |-> "dir", arg |-> PathJoin(DATA_DIR, a.data)]

\* load_data lines 34-43: the one reader that is called, and its argument
SelectSource(a) ==
    IF a.cornell.given
    THEN [kind |-> "cornell", arg |-> a.cornell.val]
    ELSE IF EndsWith(a.data, XML_GZ) THEN [kind |-> "file", arg |-> a.data]
    ELSE IF Len(a.data) = 0 THEN [kind |-> "dir", arg |-> DATA_DIR]
    ELSE [kind |-> "dir", arg |-> PathJoin(DATA_DIR, a.data)]

\* sys.exit(arg): no argument (None) is exit status 0
SysExit(arg) == IF arg.given THEN arg.val ELSE 0

\* Exit status of an uncaught exception
UncaughtStatus == 1

RECURSIVE PairsOfDialogue(_, _, _, _)
PairsOfDialogue(dial, d, i, max_tokens) ==
    IF i >= Len(dial) THEN <<>>
    ELSE (IF dial[i] <= max_tokens /\ dial[i + 1] <= max_tokens
          THEN << <<d, i>> >> ELSE <<>>)
         \o PairsOfDialogue(dial, d, i + 1, max_tokens)

RECURSIVE PairsFrom(_, _, _)
PairsFrom(dialogues, d, max_tokens) ==
    IF d > Len(dialogues) THEN <<>>
    ELSE PairsOfDialogue(dialogues[d], d, 1, max_tokens)
         \o PairsFrom(dialogues, d + 1, max_tokens)

\* subtitles.dialogues_to_pairs: consecutive phrases, both within max_tokens
dialogues_to_pairs(dialogues, max_tokens) == PairsFrom(dialogues, 1, max_tokens)

\* data.encode_phrase_pairs: one encoded sample per pair, in order
encode_phrase_pairs(pairs) == pairs

Min(a, b) == IF a < b THEN a ELSE b

\* data.iterate_batches: the batch number k (0-based) of data, empty past the end
iterate_batches(data, batch_size, k) ==
    SubSeq(data, k * batch_size + 1, Min((k + 1) * batch_size, Len(data)))

Range(s) == {s[i] : i \in 1..Len(s)}
Permutations(s) ==
    {p \in [1..Len(s) -> Range(s)] : \A i, j \in 1..Len(s) : i # j => p[i] # p[j]}

RECURSIVE SumSeq(_)
SumSeq(s) == IF s = <<>> THEN 0 ELSE Head(s) + SumSeq(Tail(s))

Frac(n, d) == [num |-> n, den |-> d]
Less(x, y) == x.num * y.den < y.num * x.den

\* 2^n modulo m
RECURSIVE Pow2Mod(_, _)
Pow2Mod(n, m) == IF n = 0 THEN 1 % m ELSE (2 * Pow2Mod(n - 1, m)) % m

\* floor(log2(a/b)) for a, b > 0
RECURSIVE BinExp(_, _)
BinExp(a, b) ==
    IF a < b THEN BinExp(2 * a, b) - 1
    ELSE IF a >= 2 * b THEN BinExp(a, 2 * b) + 1
    ELSE 0

\* The double nearest to the decimal tie o/2000 (o odd) against the tie itself:
\* 1 when the double is above it, -1 when below, 0 when the tie is a double.
\* The double is m / 2^s with m the integer nearest to o * 2^s / 2000, where
\* 2^52 <= o * 2^s / 2000 < 2^53; the fraction dropped is
\* (o * 2^(s-4) mod 125) / 125.
TieSide(o) ==
    LET s == 52 - BinExp(o, 2000)
        fr == ((o % 125) * Pow2Mod(s - 4, 125)) % 125
    IN IF fr = 0 THEN 0 ELSE IF 2 * fr > 125 THEN 1 ELSE -1

\* "%.3f" % x, in thousandths: the double nearest to the quotient (line 122),
\* rounded to three decimals on its exact binary value, exact ties to even.
\* The double of a quotient that is not a decimal tie lies on the quotient's
\* side of every tie; the double of a tie lies where TieSide says.
Fmt3f(x) ==
    LET a == 1000 * x.num
        b == x.den * BLEU_SCALE
        q == a \div b
        r == a % b
    IN IF 2 * r < b THEN q
       ELSE IF 2 * r > b THEN q + 1
       ELSE LET side == TieSide(2 * q + 1)
            IN IF side > 0 THEN q + 1
               ELSE IF side < 0 THEN q
               ELSE IF q % 2 = 0 THEN q ELSE q + 1

\* decimal digits of n
RECURSIVE Digits(_)
Digits(n) == IF n < 10 THEN <<n>> ELSE Digits(n \div 10) \o <<n % 10>>

\* "%02d" % n
Fmt02d(n) == IF n < 10 THEN <<0, n>> ELSE Digits(n)

\* checkpoint named by the score alone
CheckpointNameNoEpoch(dir, b, e) == [dir |-> dir, bleu3 |-> Fmt3f(b), ep |-> <<>>]

\* line 128: os.path.join(saves_path, "pre_bleu_%.3f_%02d.dat" % (bleu, epoch))
CheckpointName(dir, b, e) == [dir |-> dir, bleu3 |-> Fmt3f(b), ep |-> Fmt02d(e)]

\* "best_bleu <= bleu" in place of "best_bleu < bleu"
IsBestNonStrict(best, b) == ~best.given \/ ~Less(b, best.val)

\* line 126: best_bleu is None or best_bleu < bleu
IsBest(best, b) == ~best.given \/ Less(best.val, b)

\* line 127: best_bleu is not None
HadBest(best) == best.given

\* best_bleu assigned only when a checkpoint is written
NewBestOnlyOnSave(best, b) == IF IsBest(best, b) /\ HadBest(best) THEN Some(b) ELSE best

\* lines 126-130: the value of best_bleu after the epoch
NewBest(best, b) == IF IsBest(best, b) THEN Some(b) ELSE best

\* save_embeddings skipped
NextPcNoSave(p) ==
    CASE p = "makedirs" -> "load"
      [] p = "load" -> "vocab"
      [] p = "vocab" -> "init_model"
      [] p = "save_emb" -> "init_model"
      [] p = "init_model" -> "epoch"
      [] p = "encode" -> "decode"
      [] p = "decode" -> "loss"
      [] p = "loss" -> "backward"
      [] p = "backward" -> "clip"
      [] p = "clip" -> "step"
      [] p = "step" -> "append"
      [] p = "append" -> "batch"
      [] p = "mean" -> "log"
      [] p = "log" -> "checkpoint"
      [] p = "checkpoint" -> "epoch"

\* optimizer step taken before the clipping
NextPcStepFirst(p) ==
    CASE p = "makedirs" -> "load"
      [] p = "load" -> "vocab"
      [] p = "vocab" -> "save_emb"
      [] p = "save_emb" -> "init_model"
      [] p = "init_model" -> "epoch"
      [] p = "encode" -> "decode"
      [] p = "decode" -> "loss"
      [] p = "loss" -> "backward"
      [] p = "backward" -> "step"
      [] p = "step" -> "clip"
      [] p = "clip" -> "append"
      [] p = "append" -> "batch"
      [] p = "mean" -> "log"
      [] p = "log" -> "checkpoint"
      [] p = "checkpoint" -> "epoch"

\* The statement that follows statement p in program order
NextPc(p) ==
    CASE p = "makedirs" -> "load"
      [] p = "load" -> "vocab"
      [] p = "vocab" -> "save_emb"
      [] p = "save_emb" -> "init_model"
      [] p = "init_model" -> "epoch"
      [] p = "encode" -> "decode"
      [] p = "decode" -> "loss"
      [] p = "loss" -> "backward"
      [] p = "backward" -> "clip"
      [] p = "clip" -> "step"
      [] p = "step" -> "append"
      [] p = "append" -> "batch"
      [] p = "mean" -> "log"
      [] p = "log" -> "checkpoint"
      [] p = "checkpoint" -> "epoch"

----------------------------------------------------------------------------
(* Initial state: after parse_args (line 60) *)

Init ==
    /\ \/ args \in AllArgs /\ corpus \in SmallCorpora
       \/ args = DefaultArgs /\ corpus \in AllCorpora
    /\ pc = "makedirs"
    /\ dirs = {}
    /\ reads = {}
    /\ log_errors = 0
    /\ exit_status = None
    /\ phrase_pairs = <<>>
    /\ train_data = <<>>
    /\ emb_saved = 0
    /\ writer = "none"
    /\ bleu_series = <<>>
    /\ loss_series = <<>>
    /\ params = 0
    /\ grad = {}
    /\ grad_clipped = FALSE
    /\ best_bleu = None
    /\ epoch = 0
    /\ shuffles = 0
    /\ losses = <<>>
    /\ bleu_sum = 0
    /\ bleu_count = 0
    /\ bleu = Frac(0, 1)
    /\ ofs = 0
    /\ nbatches = 0
    /\ batch = <<>>
    /\ idx = 1
    /\ loss_v = 0
    /\ trace = <<>>
    /\ scored = <<>>
    /\ yielded = <<>>
    /\ files = {}
    /\ saved_at = {}

----------------------------------------------------------------------------
(* Actions *)

\* lines 62-63
MakeDirs ==
    /\ pc = "makedirs"
    /\ dirs' = dirs \cup {PathJoin(SAVES_DIR, args.name)}
    /\ pc' = NextPc(pc)
    /\ UNCHANGED <<args, corpus, reads, log_errors, exit_status, phrase_pairs,
                   train_data, emb_saved, writer, bleu_series, loss_series, params,
                   grad, grad_clipped, best_bleu, epoch, shuffles, losses, bleu_sum,
                   bleu_count, bleu, ofs, nbatches, batch, idx, loss_v, trace,
                   scored, yielded, files, saved_at>>

\* line 65, load_data lines 33-50
LoadData ==
    /\ pc = "load"
    /\ reads' = reads \cup {SelectSource(args)}
    /\ IF Len(corpus) = 0
       THEN /\ log_errors' = log_errors + 1
            /\ exit_status' = Some(SysExit(None))
            /\ pc' = "exited"
            /\ UNCHANGED phrase_pairs
       ELSE /\ phrase_pairs' = dialogues_to_pairs(corpus, MAX_TOKENS)
            /\ pc' = NextPc(pc)
            /\ UNCHANGED <<log_errors, exit_status>>
    /\ UNCHANGED <<args, corpus, dirs, train_data, emb_saved, writer, bleu_series,
                   loss_series, params, grad, grad_clipped, best_bleu, epoch,
                   shuffles, losses, bleu_sum, bleu_count, bleu, ofs, nbatches,
                   batch, idx, loss_v, trace, scored, yielded, files, saved_at>>

\* lines 67-75
BuildVocab ==
    /\ pc = "vocab"
    /\ train_data' = encode_phrase_pairs(phrase_pairs)
    /\ pc' = NextPc(pc)
    /\ UNCHANGED <<args, corpus, dirs, reads, log_errors, exit_status, phrase_pairs,
                   emb_saved, writer, bleu_series, loss_series, params, grad,
                   grad_clipped, best_bleu, epoch, shuffles, losses, bleu_sum,
                   bleu_count, bleu, ofs, nbatches, batch, idx, loss_v, trace,
                   scored, yielded, files, saved_at>>

\* line 77
SaveEmbeddings ==
    /\ pc = "save_emb"
    /\ emb_saved' = emb_saved + 1
    /\ pc' = NextPc(pc)
    /\ UNCHANGED <<args, corpus, dirs, reads, log_errors, exit_status, phrase_pairs,
                   train_data, writer, bleu_series, loss_series, params, grad,
                   grad_clipped, best_bleu, epoch, shuffles, losses, bleu_sum,
                   bleu_count, bleu, ofs, nbatches, batch, idx, loss_v, trace,
                   scored, yielded, files, saved_at>>

\* lines 80-93
InitModel ==
    /\ pc = "init_model"
    /\ params' = 0
    /\ grad' = {}
    /\ writer' = "open"
    /\ best_bleu' = None
    /\ pc' = NextPc(pc)
    /\ UNCHANGED <<args, corpus, dirs, reads, log_errors, exit_status, phrase_pairs,
                   train_data, emb_saved, bleu_series, loss_series, grad_clipped,
                   epoch, shuffles, losses, bleu_sum, bleu_count, bleu, ofs,
                   nbatches, batch, idx, loss_v, trace, scored, yielded, files, saved_at>>

\* lines 95-99: next epoch of range(MAX_EPOCHES), or the loop ends
EpochLoop ==
    /\ pc = "epoch"
    /\ IF epoch < MAX_EPOCHES
       THEN /\ train_data' \in Permutations(train_data)
            /\ shuffles' = shuffles + 1
            /\ losses' = <<>>
            /\ bleu_sum' = 0
            /\ bleu_count' = 0
            /\ ofs' = 0
            /\ scored' = <<>>
            /\ yielded' = <<>>
            /\ pc' = "batch"
       ELSE /\ pc' = "close"
            /\ UNCHANGED <<train_data, shuffles, losses, bleu_sum, bleu_count, ofs,
                           scored, yielded>>
    /\ UNCHANGED <<args, corpus, dirs, reads, log_errors, exit_status, phrase_pairs,
                   emb_saved, writer, bleu_series, loss_series, params, grad,
                   grad_clipped, best_bleu, epoch, bleu, nbatches, batch, idx,
                   loss_v, trace, files, saved_at>>

\* line 100: the generator yields the next batch, or is exhausted
BatchNext ==
    /\ pc = "batch"
    /\ LET b == iterate_batches(train_data, BATCH_SIZE, ofs)
       IN IF Len(b) > 0
          THEN /\ batch' = b
               /\ ofs' = ofs + 1
               /\ nbatches' = nbatches + 1
               /\ trace' = <<>>
               /\ yielded' = Append(yielded, b)
               /\ pc' = "encode"
          ELSE /\ pc' = "mean"
               /\ UNCHANGED <<batch, ofs, nbatches, trace, yielded>>
    /\ UNCHANGED <<args, corpus, dirs, reads, log_errors, exit_status, phrase_pairs,
                   train_data, emb_saved, writer, bleu_series, loss_series, params,
                   grad, grad_clipped, best_bleu, epoch, shuffles, losses, bleu_sum,
                   bleu_count, bleu, idx, loss_v, scored, files, saved_at>>

\* lines 101-105
Encode ==
    /\ pc = "encode"
    /\ idx' = 1
    /\ trace' = Append(trace, "encode")
    /\ pc' = NextPc(pc)
    /\ UNCHANGED <<args, corpus, dirs, reads, log_errors, exit_status, phrase_pairs,
                   train_data, emb_saved, writer, bleu_series, loss_series, params,
                   grad, grad_clipped, best_bleu, epoch, shuffles, losses, bleu_sum,
                   bleu_count, bleu, ofs, nbatches, batch, loss_v, scored, yielded, files,
                   saved_at>>

\* bleu_count advanced once per batch instead of once per pair
CountAfterPerBatch(n, i) == IF i = 1 THEN n + 1 ELSE n

\* line 111
CountAfter(n, i) == n + 1

\* lines 106-111: one iteration of the loop over the pairs of the batch
DecodePair ==
    /\ pc = "decode"
    /\ idx <= Len(batch)
    /\ \E b \in BleuValues :
          /\ bleu_sum' = bleu_sum + b
          /\ scored' = Append(scored, <<batch[idx], b>>)
    /\ bleu_count' = CountAfter(bleu_count, idx)
    /\ idx' = idx + 1
    /\ trace' = Append(trace, "decode")
    /\ pc' = IF idx = Len(batch) THEN NextPc(pc) ELSE pc
    /\ UNCHANGED <<args, corpus, dirs, reads, log_errors, exit_status, phrase_pairs,
                   train_data, emb_saved, writer, bleu_series, loss_series, params,
                   grad, grad_clipped, best_bleu, epoch, shuffles, losses, bleu,
                   ofs, nbatches, batch, loss_v, yielded, files, saved_at>>

\* lines 112-116
Loss ==
    /\ pc = "loss"
    /\ loss_v' \in LossValues
    /\ trace' = Append(trace, "loss")
    /\ pc' = NextPc(pc)
    /\ UNCHANGED <<args, corpus, dirs, reads, log_errors, exit_status, phrase_pairs,
                   train_data, emb_saved, writer, bleu_series, loss_series, params,
                   grad, grad_clipped, best_bleu, epoch, shuffles, losses, bleu_sum,
                   bleu_count, bleu, ofs, nbatches, batch, idx, scored, yielded, files,
                   saved_at>>

\* line 117: backward() adds the batch's gradient to what .grad holds
GradAfterBackward(g, n) == g \cup {n}

\* line 117
Backward ==
    /\ pc = "backward"
    /\ grad' = GradAfterBackward(grad, nbatches)
    /\ grad_clipped' = FALSE
    /\ trace' = Append(trace, "backward")
    /\ pc' = NextPc(pc)
    /\ UNCHANGED <<args, corpus, dirs, reads, log_errors, exit_status, phrase_pairs,
                   train_data, emb_saved, writer, bleu_series, loss_series, params,
                   best_bleu, epoch, shuffles, losses, bleu_sum, bleu_count, bleu,
                   ofs, nbatches, batch, idx, loss_v, scored, yielded, files, saved_at>>

\* line 118
Clip ==
    /\ pc = "clip"
    /\ grad_clipped' = TRUE
    /\ trace' = Append(trace, "clip")
    /\ pc' = NextPc(pc)
    /\ UNCHANGED <<args, corpus, dirs, reads, log_errors, exit_status, phrase_pairs,
                   train_data, emb_saved, writer, bleu_series, loss_series, params,
                   grad, best_bleu, epoch, shuffles, losses, bleu_sum, bleu_count,
                   bleu, ofs, nbatches, batch, idx, loss_v, scored, yielded, files, saved_at>>

\* line 119
OptStep ==
    /\ pc = "step"
    /\ params' = params + 1
    /\ trace' = Append(trace, "step")
    /\ pc' = NextPc(pc)
    /\ UNCHANGED <<args, corpus, dirs, reads, log_errors, exit_status, phrase_pairs,
                   train_data, emb_saved, writer, bleu_series, loss_series, grad,
                   grad_clipped, best_bleu, epoch, shuffles, losses, bleu_sum,
                   bleu_count, bleu, ofs, nbatches, batch, idx, loss_v, scored, yielded,
                   files, saved_at>>

\* line 121
AppendLoss ==
    /\ pc = "append"
    /\ losses' = Append(losses, loss_v)
    /\ pc' = NextPc(pc)
    /\ UNCHANGED <<args, corpus, dirs, reads, log_errors, exit_status, phrase_pairs,
                   train_data, emb_saved, writer, bleu_series, loss_series, params,
                   grad, grad_clipped, best_bleu, epoch, shuffles, bleu_sum,
                   bleu_count, bleu, ofs, nbatches, batch, idx, loss_v, trace,
                   scored, yielded, files, saved_at>>

\* line 122: float / int, ZeroDivisionError when no pair was counted
EpochMean ==
    /\ pc = "mean"
    /\ IF bleu_count = 0
       THEN /\ exit_status' = Some(UncaughtStatus)
            /\ pc' = "crashed"
            /\ UNCHANGED bleu
       ELSE /\ bleu' = Frac(bleu_sum, bleu_count)
            /\ pc' = NextPc(pc)
            /\ UNCHANGED exit_status
    /\ UNCHANGED <<args, corpus, dirs, reads, log_errors, phrase_pairs, train_data,
                   emb_saved, writer, bleu_series, loss_series, params, grad,
                   grad_clipped, best_bleu, epoch, shuffles, losses, bleu_sum,
                   bleu_count, ofs, nbatches, batch, idx, loss_v, trace, scored, yielded,
                   files, saved_at>>

\* lines 123-125
LogMetrics ==
    /\ pc = "log"
    /\ loss_series' = Append(loss_series, Frac(SumSeq(losses), Len(losses)))
    /\ bleu_series' = Append(bleu_series, bleu)
    /\ pc' = NextPc(pc)
    /\ UNCHANGED <<args, corpus, dirs, reads, log_errors, exit_status, phrase_pairs,
                   train_data, emb_saved, writer, params, grad, grad_clipped,
                   best_bleu, epoch, shuffles, losses, bleu_sum, bleu_count, bleu,
                   ofs, nbatches, batch, idx, loss_v, trace, scored, yielded, files,
                   saved_at>>

\* torch.save(state, name): creates the file or replaces its content
WriteFile(fs, name, content) ==
    {f \in fs : f.name # name} \cup {[name |-> name, content |-> content]}

\* lines 126-130, and the advance of range(MAX_EPOCHES)
Checkpoint ==
    /\ pc = "checkpoint"
    /\ IF IsBest(best_bleu, bleu) /\ HadBest(best_bleu)
       THEN /\ files' = WriteFile(files, CheckpointName(PathJoin(SAVES_DIR, args.name), bleu, epoch),
                                   params)
            /\ saved_at' = saved_at \cup {epoch}
       ELSE UNCHANGED <<files, saved_at>>
    /\ best_bleu' = NewBest(best_bleu, bleu)
    /\ epoch' = epoch + 1
    /\ pc' = NextPc(pc)
    /\ UNCHANGED <<args, corpus, dirs, reads, log_errors, exit_status, phrase_pairs,
                   train_data, emb_saved, writer, bleu_series, loss_series, params,
                   grad, grad_clipped, shuffles, losses, bleu_sum, bleu_count, bleu,
                   ofs, nbatches, batch, idx, loss_v, trace, scored, yielded>>

\* line 131, then the script ends
WriterClose ==
    /\ pc = "close"
    /\ writer' = "closed"
    /\ exit_status' = Some(0)
    /\ pc' = "done"
    /\ UNCHANGED <<args, corpus, dirs, reads, log_errors, phrase_pairs, train_data,
                   emb_saved, bleu_series, loss_series, params, grad, grad_clipped,
                   best_bleu, epoch, shuffles, losses, bleu_sum, bleu_count, bleu,
                   ofs, nbatches, batch, idx, loss_v, trace, scored, yielded, files,
                   saved_at>>

Next ==
    \/ MakeDirs
    \/ LoadData
    \/ BuildVocab
    \/ SaveEmbeddings
    \/ InitModel
    \/ EpochLoop
    \/ BatchNext
    \/ Encode
    \/ DecodePair
    \/ Loss
    \/ Backward
    \/ Clip
    \/ OptStep
    \/ AppendLoss
    \/ EpochMean
    \/ LogMetrics
    \/ Checkpoint
    \/ WriterClose

Spec == Init /\ [][Next]_vars

----------------------------------------------------------------------------
(* Properties *)

MaxOf(series) ==
    CHOOSE x \in Range(series) : \A y \in Range(series) : ~Less(x, y)

SameFrac(x, y) == x.num * y.den = y.num * x.den

\* C1: a checkpoint is written at the end of epoch e only if e is not the first
\* epoch and the mean BLEU of e is strictly greater than the mean BLEU of every
\* earlier epoch.
C1_CheckpointOnlyOnStrictBest ==
    \A e \in saved_at :
        /\ e # 0
        /\ e + 1 <= Len(bleu_series)
        /\ \A p \in 1..e : Less(bleu_series[p], bleu_series[e + 1])

\* An epoch that did not beat the best was followed by one that did: only the
\* latter wrote a checkpoint.
C1_Witness ==
    /\ pc = "done"
    /\ saved_at = {2}
    /\ ~Less(bleu_series[1], bleu_series[2])

\* C2: best_bleu starts unset, changes only at the end of an epoch, where it
\* becomes the epoch's mean exactly when it was unset or strictly smaller; it
\* never decreases, and it is the maximum of the means of the completed epochs.
C2_BestIsRunningMax ==
    /\ [](IF epoch = 0
          THEN best_bleu = None
          ELSE /\ best_bleu.given
               /\ SameFrac(best_bleu.val, MaxOf(SubSeq(bleu_series, 1, epoch))))
    /\ [][/\ (best_bleu' # best_bleu => pc = "checkpoint")
          /\ (pc = "checkpoint" /\ pc' # pc =>
                best_bleu' = IF ~best_bleu.given \/ Less(best_bleu.val, bleu)
                             THEN Some(bleu) ELSE best_bleu)
          /\ (best_bleu.given =>
                best_bleu'.given /\ ~Less(best_bleu'.val, best_bleu.val))]_vars

\* The run ended on an epoch below the best, after an epoch that wrote no file
\* set the first best.
C2_Witness ==
    /\ pc = "done"
    /\ saved_at = {}
    /\ Less(bleu_series[MAX_EPOCHES], best_bleu.val)
    /\ SameFrac(best_bleu.val, bleu_series[1])

\* C3: with a non-empty dialogue set the run executes exactly MAX_EPOCHES
\* epochs, closes the metrics stream and exits with status 0, also when no
\* phrase pair is retained.
C3_RunsAllEpochs ==
    (exit_status.given /\ Len(corpus) > 0) =>
        /\ pc = "done"
        /\ shuffles = MAX_EPOCHES
        /\ Len(bleu_series) = MAX_EPOCHES
        /\ writer = "closed"
        /\ exit_status.val = 0

\* C4: with an empty dialogue set load_data logs an error and the process ends
\* with a non-zero exit status before pairs, embeddings, epochs, metrics or
\* checkpoints.
C4_EmptyExitsNonZero ==
    (pc = "exited") =>
        /\ Len(corpus) = 0
        /\ log_errors = 1
        /\ exit_status.given
        /\ exit_status.val # 0
        /\ phrase_pairs = <<>>
        /\ emb_saved = 0
        /\ shuffles = 0
        /\ bleu_series = <<>>
        /\ loss_series = <<>>
        /\ files = {}

Loaded == pc \notin {"makedirs", "load"}

\* The source the claim names for a command line, with the directory of any
\* other --data value written as DATA_DIR followed by the value.
C5_SourceAsClaimed(a) ==
    IF a.cornell.given THEN [kind |-> "cornell", arg |-> a.cornell.val]
    ELSE IF Len(a.data) >= 7 /\ SubSeq(a.data, Len(a.data) - 6, Len(a.data)) = XML_GZ
         THEN [kind |-> "file", arg |-> a.data]
    ELSE IF a.data = <<>> THEN [kind |-> "dir", arg |-> DATA_DIR]
    ELSE [kind |-> "dir", arg |-> DATA_DIR \o a.data]

\* C5 as stated: exactly one source is read, and any --data value that is
\* neither empty nor a .xml.gz name reads the directory DATA_DIR/<value>.
C5_OneSourceDataDirValue ==
    /\ ~Loaded => reads = {}
    /\ Loaded => reads = {C5_SourceAsClaimed(args)}

\* C5 amended: exactly one source is read; any other --data value reads the
\* directory DATA_DIR/<value> when the value is relative and the directory
\* <value> itself when it is absolute.
C5_OneSourcePerRun ==
    /\ ~Loaded => reads = {}
    /\ Loaded =>
        reads = {IF args.cornell.given
                 THEN [kind |-> "cornell", arg |-> args.cornell.val]
                 ELSE IF Len(args.data) >= 7
                         /\ SubSeq(args.data, Len(args.data) - 6, Len(args.data)) = XML_GZ
                 THEN [kind |-> "file", arg |-> args.data]
                 ELSE IF args.data = <<>>
                 THEN [kind |-> "dir", arg |-> DATA_DIR]
                 ELSE IF Head(args.data) = "/"
                 THEN [kind |-> "dir", arg |-> args.data]
                 ELSE [kind |-> "dir", arg |-> DATA_DIR \o args.data]}

\* An absolute --data directory was read as given, not under DATA_DIR.
C5_Witness ==
    /\ Loaded
    /\ ~args.cornell.given
    /\ args.data = AbsDir
    /\ reads = {[kind |-> "dir", arg |-> AbsDir]}

RECURSIVE Concat(_)
Concat(ss) == IF ss = <<>> THEN <<>> ELSE Head(ss) \o Concat(Tail(ss))

RECURSIVE SumScores(_)
SumScores(sc) == IF sc = <<>> THEN 0 ELSE Head(sc)[2] + SumScores(Tail(sc))

\* C6: at the end of an epoch the batches partition the shuffled training set
\* with only the last one possibly smaller than BATCH_SIZE, every pair was
\* processed exactly once, bleu_count is the number of pairs, one loss was
\* recorded per batch, and the mean BLEU is the sum over the pairs divided by
\* their number.
C6_EpochCoversEveryPairOnce ==
    pc \in {"log", "checkpoint"} =>
        LET N == Len(train_data)
            nb == (N + BATCH_SIZE - 1) \div BATCH_SIZE
        IN /\ Concat(yielded) = train_data
           /\ Len(yielded) = nb
           /\ \A k \in 1..Len(yielded) :
                 /\ Len(yielded[k]) <= BATCH_SIZE
                 /\ k < Len(yielded) => Len(yielded[k]) = BATCH_SIZE
           /\ Len(scored) = N
           /\ \A q \in Range(phrase_pairs) :
                 Cardinality({i \in 1..Len(scored) : scored[i][1] = q}) = 1
           /\ bleu_count = N
           /\ Len(losses) = nb
           /\ bleu.den = N
           /\ bleu.num = SumScores(scored)

\* Three pairs: a full batch and a smaller last one, with unequal scores.
C6_Witness ==
    /\ pc = "log"
    /\ Len(train_data) = 3
    /\ Len(yielded) = 2
    /\ Len(yielded[2]) = 1
    /\ scored[1][2] # scored[3][2]

\* C7: the embeddings are saved exactly once, before the first shuffle, the
\* first optimizer step and the first checkpoint write.
C7_EmbeddingsSavedBeforeTraining ==
    /\ emb_saved <= 1
    /\ (shuffles > 0 \/ params > 0 \/ nbatches > 0 \/ files # {} \/ saved_at # {}
        \/ pc \in {"epoch", "batch", "close", "done"})
         => emb_saved = 1

\* A finished run that wrote a checkpoint.
C7_Witness ==
    /\ pc = "done"
    /\ emb_saved = 1
    /\ files # {}
    /\ shuffles = MAX_EPOCHES

InBatchBeforeStep == pc \in {"encode", "decode", "loss", "backward", "clip", "step"}

\* C8: a batch is encoded and decoded pair by pair, then its loss is computed,
\* propagated backward, the gradient clipped and one optimizer step taken, in
\* that order; the parameters change only in the optimizer step, once per batch.
C8_BatchStepOrder ==
    /\ [](/\ pc = "append" =>
               trace = <<"encode">> \o [i \in 1..Len(batch) |-> "decode"]
                         \o <<"loss", "backward", "clip", "step">>
          /\ pc = "step" => grad_clipped /\ nbatches \in grad
          /\ params = IF InBatchBeforeStep THEN nbatches - 1 ELSE nbatches)
    /\ [][params' # params => pc = "step" /\ params' = params + 1]_vars

\* The second batch of an epoch, one pair long, has taken its optimizer step.
C8_Witness ==
    /\ pc = "append"
    /\ ofs = 2
    /\ Len(batch) = 1
    /\ epoch = 1

\* C9: at every optimizer step the gradient holds the contribution of the
\* current batch only.
C9_GradientOfCurrentBatchOnly ==
    pc = "step" => grad = {nbatches}

\* C10: a checkpoint file is never overwritten or deleted, every write creates
\* a file with a new name, and there are at most MAX_EPOCHES - 1 files.
C10_CheckpointsNeverOverwritten ==
    /\ [](/\ Cardinality(files) <= MAX_EPOCHES - 1
          /\ Cardinality(files) = Cardinality(saved_at)
          /\ Cardinality({f.name : f \in files}) = Cardinality(files))
    /\ [][/\ \A f \in files : f \in files'
          /\ saved_at' # saved_at =>
                \E f \in files' : f.name \notin {g.name : g \in files}]_vars

\* Two checkpoints whose names carry the same formatted score.
C10_Witness ==
    \E f, g \in files :
        /\ f # g
        /\ f.name.bleu3 = g.name.bleu3
        /\ f.name.ep # g.name.ep

====
